---- MODULE Spec2Model ----
(***************************************************************************)
(* Revenue aggregation of backend/app/services/reservations.py:            *)
(* calculate_monthly_revenue and calculate_total_revenue, each a live      *)
(* query through DatabasePool followed by a static fallback table.         *)
(*                                                                         *)
(* One invocation is in flight at a time; every await / scope boundary of  *)
(* the code is one action.  The reservations table is read by the query    *)
(* only, in a single step, so it changes between invocations.              *)
(***************************************************************************)
EXTENDS Integers, Sequences, FiniteSets, TLC

VARIABLES
    db,               \* rows of the reservations table
    pc,               \* position of the invocation in flight
    op,               \* "monthly" | "total" | "" (no invocation yet)
    property_id, tenant_id, month, year,    \* arguments
    start_date, end_date,                   \* locals of calculate_monthly_revenue
    session_factory,  \* db_pool.session_factory after initialize()
    session,          \* "none" | "open" | "closed": the async-with scope
    row,              \* result.fetchone()
    retval,           \* value of the return expression inside the with block
    exc,              \* an exception is propagating
    result,           \* what the caller received
    path,             \* "" | "live" | "fallback" | "none" | "raised"
    fail,             \* the step that failed, "" if none
    nInit, nAcquire, nExecute,   \* collaborator calls made by this invocation
    ref               \* an earlier invocation with the same arguments, no data change since

vars == <<db, pc, op, property_id, tenant_id, month, year, start_date, end_date,
          session_factory, session, row, retval, exc, result, path, fail,
          nInit, nAcquire, nExecute, ref>>

-----------------------------------------------------------------------------
(* Bounds and input sets *)

MaxRes == 2

MAXYEAR == 9999

Tenants == {"tenant-a", "tenant-b", "tenant-x"}
Properties == {"prop-001", "prop-002"}
\* (month, year) arguments: a month < 12, a December, and the last December datetime has
Periods == { <<6, 2024>>, <<12, 2024>>, <<12, MAXYEAR>> }

-----------------------------------------------------------------------------
(* Values: decimal.Decimal as coefficient and number of fraction digits *)

Dec(c, s) == [kind |-> "Decimal", coef |-> c, scale |-> s]
PyNone == [kind |-> "None", coef |-> 0, scale |-> 0]
SqlNull == PyNone
ValueError == [kind |-> "ValueError", coef |-> 0, scale |-> 0]
NoResult == [kind |-> "pending", coef |-> 0, scale |-> 0]

\* no earlier invocation to compare with
NoRef == [path |-> "", result |-> NoResult]

RECURSIVE Pow10(_)
Pow10(n) == IF n = 0 THEN 1 ELSE 10 * Pow10(n - 1)

Max(a, b) == IF a >= b THEN a ELSE b

\* Decimal.__add__ / numeric addition: exact, result scale is the larger scale
DecAdd(a, b) ==
    LET s == Max(a.scale, b.scale)
    IN  Dec(a.coef * Pow10(s - a.scale) + b.coef * Pow10(s - b.scale), s)

Digit(d) ==
    CASE d = 0 -> "0" [] d = 1 -> "1" [] d = 2 -> "2" [] d = 3 -> "3"
      [] d = 4 -> "4" [] d = 5 -> "5" [] d = 6 -> "6" [] d = 7 -> "7"
      [] d = 8 -> "8" [] d = 9 -> "9"

RECURSIVE NatStr(_)
NatStr(n) == IF n < 10 THEN Digit(n) ELSE NatStr(n \div 10) \o Digit(n % 10)

RECURSIVE FracStr(_, _)
FracStr(n, digits) ==
    IF digits = 0 THEN "" ELSE FracStr(n \div 10, digits - 1) \o Digit(n % 10)

\* Decimal.__str__ for a non-negative value with 0..6 fraction digits
DecStr(d) ==
    IF d.scale = 0 THEN NatStr(d.coef)
    ELSE NatStr(d.coef \div Pow10(d.scale)) \o "."
         \o FracStr(d.coef % Pow10(d.scale), d.scale)

\* str(x) of a fetched column: a Decimal, or None for SQL NULL
PyStr(v) == IF v.kind = "Decimal" THEN DecStr(v) ELSE "None"

\* Decimal(str(x)): InvalidOperation unless the text is a number
DecimalOfStr(v) ==
    IF PyStr(v) = "None" THEN [ok |-> FALSE, value |-> PyNone]
    ELSE [ok |-> TRUE, value |-> v]

-----------------------------------------------------------------------------
(* datetime *)

datetime(y, m, d) == <<y, m, d>>
DatetimeValid(y, m, d) == 1 <= y /\ y <= MAXYEAR /\ 1 <= m /\ m <= 12 /\ 1 <= d

DateLess(a, b) ==
    \/ a[1] < b[1]
    \/ a[1] = b[1] /\ a[2] < b[2]
    \/ a[1] = b[1] /\ a[2] = b[2] /\ a[3] < b[3]
DateGeq(a, b) == ~DateLess(a, b)

NoDate == <<0, 0, 0>>

StartDate(y, m) == datetime(y, m, 1)
EndDate(y, m) == IF m < 12 THEN datetime(y, m + 1, 1) ELSE datetime(y + 1, 1, 1)
EndDateValid(y, m) ==
    IF m < 12 THEN DatetimeValid(y, m + 1, 1) ELSE DatetimeValid(y + 1, 1, 1)

-----------------------------------------------------------------------------
(* The reservations table *)

Bookings ==
    { [total_amount |-> Dec(10050, 2),  check_in_date |-> datetime(2024, 6, 1)],
      [total_amount |-> Dec(333333, 3), check_in_date |-> datetime(2024, 7, 1)],
      [total_amount |-> Dec(2025, 2),   check_in_date |-> datetime(2024, 12, 1)],
      [total_amount |-> Dec(7125, 3),   check_in_date |-> datetime(2025, 1, 1)],
      [total_amount |-> Dec(0, 3),      check_in_date |-> datetime(2024, 6, 1)],
      [total_amount |-> SqlNull,        check_in_date |-> datetime(2024, 12, 1)] }

\* bookings that other (property, tenant) pairs may also hold
SharedBookings ==
    { [total_amount |-> Dec(10050, 2),  check_in_date |-> datetime(2024, 6, 1)],
      [total_amount |-> Dec(2025, 2),   check_in_date |-> datetime(2024, 12, 1)] }

Reservation(p, t, b) ==
    [property_id |-> p, tenant_id |-> t,
     total_amount |-> b.total_amount, check_in_date |-> b.check_in_date]

ReservationSpace ==
    {Reservation("prop-001", "tenant-a", b) : b \in Bookings}
    \cup {Reservation("prop-001", "tenant-b", b) : b \in SharedBookings}
    \cup {Reservation("prop-002", "tenant-a", b) : b \in SharedBookings}

\* SUM(total_amount): NULLs are skipped, NULL when nothing was summed
RECURSIVE SqlSum(_)
SqlSum(S) ==
    IF S = {} THEN SqlNull
    ELSE LET r == CHOOSE x \in S : TRUE
             rest == SqlSum(S \ {r})
         IN  IF r.total_amount.kind # "Decimal" THEN rest
             ELSE IF rest.kind # "Decimal" THEN r.total_amount
             ELSE DecAdd(r.total_amount, rest)

Coalesce(v, dflt) == IF v.kind = "Decimal" THEN v ELSE dflt

NoRow == [present |-> FALSE]

\* mutant: the upper bound of the interval is closed
MonthlyWhereClosed(r, p, t, sd, ed) ==
    /\ r.property_id = p
    /\ r.tenant_id = t
    /\ DateGeq(r.check_in_date, sd)
    /\ ~DateLess(ed, r.check_in_date)

\* WHERE clause of the monthly query
MonthlyWhere(r, p, t, sd, ed) ==
    /\ r.property_id = p
    /\ r.tenant_id = t
    /\ DateGeq(r.check_in_date, sd)
    /\ DateLess(r.check_in_date, ed)

\* the monthly query: an aggregate without GROUP BY always yields one row
MonthlyQuery(table, p, t, sd, ed) ==
    [present |-> TRUE,
     total |-> Coalesce(SqlSum({r \in table : MonthlyWhere(r, p, t, sd, ed)}), Dec(0, 0))]

\* mutant: the query is keyed by property only
TotalWhereAnyTenant(r, p, t) == r.property_id = p

\* WHERE clause of the all-time query
TotalWhere(r, p, t) == r.property_id = p /\ r.tenant_id = t

\* the all-time query: GROUP BY property_id yields a row only for a non-empty group
TotalQuery(table, p, t) ==
    LET S == {r \in table : TotalWhere(r, p, t)}
    IN  IF S = {} THEN NoRow
        ELSE [present |-> TRUE, total_revenue |-> SqlSum(S),
              reservation_count |-> Cardinality(S)]

-----------------------------------------------------------------------------
(* Return expressions of the live path *)

RevenueResult(p, t, total, count) ==
    [property_id |-> p, tenant_id |-> t, total |-> total,
     currency |-> "USD", count |-> count]

\* return Decimal(str(row.total)) if row else Decimal('0')
MonthlyReturn(r) ==
    IF r.present THEN DecimalOfStr(r.total) ELSE [ok |-> TRUE, value |-> Dec(0, 0)]

\* mutant: the no-row result uses the fallback's zero text
TotalReturnNoRowAsFallback(r, p, t) ==
    IF r.present
    THEN LET total_revenue == DecimalOfStr(r.total_revenue)
         IN  IF total_revenue.ok
             THEN [ok |-> TRUE,
                   value |-> RevenueResult(p, t, PyStr(total_revenue.value),
                                           r.reservation_count)]
             ELSE [ok |-> FALSE, value |-> PyNone]
    ELSE [ok |-> TRUE, value |-> RevenueResult(p, t, "0.000", 0)]

\* mutant: the count is added to a running count kept across invocations
TotalReturnAccumulating(r, p, t) ==
    LET kept == IF ref # NoRef /\ ref.path = "live" THEN ref.result.count ELSE 0
    IN  IF r.present
        THEN LET total_revenue == DecimalOfStr(r.total_revenue)
             IN  IF total_revenue.ok
                 THEN [ok |-> TRUE,
                       value |-> RevenueResult(p, t, PyStr(total_revenue.value),
                                               r.reservation_count + kept)]
                 ELSE [ok |-> FALSE, value |-> PyNone]
        ELSE [ok |-> TRUE, value |-> RevenueResult(p, t, "0.00", 0)]

\* if row: ... else: ...   of calculate_total_revenue
TotalReturn(r, p, t) ==
    IF r.present
    THEN LET total_revenue == DecimalOfStr(r.total_revenue)
         IN  IF total_revenue.ok
             THEN [ok |-> TRUE,
                   value |-> RevenueResult(p, t, PyStr(total_revenue.value),
                                           r.reservation_count)]
             ELSE [ok |-> FALSE, value |-> PyNone]
    ELSE [ok |-> TRUE, value |-> RevenueResult(p, t, "0.00", 0)]

-----------------------------------------------------------------------------
(* Fallback tables *)

monthly_mock ==
    ("tenant-a" :> ("prop-001" :> Dec(333333, 3) @@ "prop-002" :> Dec(1243875, 3)
                    @@ "prop-003" :> Dec(3050250, 3)))
    @@ ("tenant-b" :> ("prop-001" :> Dec(0, 3) @@ "prop-004" :> Dec(444125, 3)
                       @@ "prop-005" :> Dec(1085333, 3)))

mock_data ==
    ("tenant-a" :> ("prop-001" :> [total |-> "2250.000", count |-> 4]
                    @@ "prop-002" :> [total |-> "4975.500", count |-> 4]
                    @@ "prop-003" :> [total |-> "6100.500", count |-> 2]))
    @@ ("tenant-b" :> ("prop-001" :> [total |-> "0.000", count |-> 0]
                       @@ "prop-004" :> [total |-> "1776.500", count |-> 4]
                       @@ "prop-005" :> [total |-> "3256.000", count |-> 3]))

EmptyDict == [k \in {} |-> 0]

\* dict.get(key, default)
Get(d, k, dflt) == IF k \in DOMAIN d THEN d[k] ELSE dflt

MonthlyFallback(table, t, p) == Get(Get(table, t, EmptyDict), p, Dec(0, 0))

\* mutant: the table is searched by property across all tenants
TotalFallbackFlat(table, t, p) ==
    LET holders == {u \in DOMAIN table : p \in DOMAIN table[u]}
        mock_property_data ==
            IF holders = {} THEN [total |-> "0.000", count |-> 0]
            ELSE table[CHOOSE u \in holders : \A v \in holders : v = u \/ table[u][p].count >= table[v][p].count][p]
    IN  RevenueResult(p, t, mock_property_data.total, mock_property_data.count)

TotalFallback(table, t, p) ==
    LET mock_property_data ==
            Get(Get(table, t, EmptyDict), p, [total |-> "0.000", count |-> 0])
    IN  RevenueResult(p, t, mock_property_data.total, mock_property_data.count)

-----------------------------------------------------------------------------
(* State machine *)

Init ==
    /\ db = {}
    /\ pc = "idle"
    /\ op = ""
    /\ property_id = ""
    /\ tenant_id = ""
    /\ month = 0
    /\ year = 0
    /\ start_date = NoDate
    /\ end_date = NoDate
    /\ session_factory = FALSE
    /\ session = "none"
    /\ row = NoRow
    /\ retval = NoResult
    /\ exc = FALSE
    /\ result = NoResult
    /\ path = ""
    /\ fail = ""
    /\ nInit = 0
    /\ nAcquire = 0
    /\ nExecute = 0
    /\ ref = NoRef

Quiescent == pc \in {"idle", "done"}

\* locals and counters of a fresh invocation
FreshLocals ==
    /\ session_factory' = FALSE
    /\ session' = "none"
    /\ row' = NoRow
    /\ retval' = NoResult
    /\ exc' = FALSE
    /\ fail' = ""
    /\ nInit' = 0
    /\ nAcquire' = 0
    /\ nExecute' = 0

\* the reservation data changes: what earlier invocations returned is no longer comparable
ClearInvocation ==
    /\ pc' = "idle"
    /\ op' = ""
    /\ property_id' = ""
    /\ tenant_id' = ""
    /\ month' = 0
    /\ year' = 0
    /\ start_date' = NoDate
    /\ end_date' = NoDate
    /\ result' = NoResult
    /\ path' = ""
    /\ ref' = NoRef
    /\ FreshLocals

AddReservation ==
    /\ Quiescent
    /\ Cardinality(db) < MaxRes
    /\ \E r \in ReservationSpace \ db : db' = db \cup {r}
    /\ ClearInvocation

RemoveReservation ==
    /\ Quiescent
    /\ \E r \in db : db' = db \ {r}
    /\ ClearInvocation

\* the earlier invocation a new one with arguments (o, p, t, m, y) is compared with
RefFor(o, p, t, m, y) ==
    IF pc = "done" /\ op = o /\ property_id = p /\ tenant_id = t /\ month = m /\ year = y
    THEN {[path |-> path, result |-> result]}
         \cup (IF ref = NoRef THEN {} ELSE {ref})
    ELSE {NoRef}

\* calculate_monthly_revenue is called: lines 12-16 run before the try block
CallMonthly ==
    /\ Quiescent
    /\ \E p \in Properties, t \in Tenants, my \in Periods :
      LET m == my[1]
          y == my[2]
      IN
        /\ ref' \in RefFor("monthly", p, t, m, y)
        /\ op' = "monthly"
        /\ property_id' = p
        /\ tenant_id' = t
        /\ month' = m
        /\ year' = y
        /\ IF DatetimeValid(y, m, 1) /\ EndDateValid(y, m)
           THEN /\ start_date' = StartDate(y, m)
                /\ end_date' = EndDate(y, m)
                /\ pc' = "initialize"
                /\ result' = NoResult
                /\ path' = ""
           ELSE \* datetime() raises ValueError outside the try block
                /\ start_date' = IF DatetimeValid(y, m, 1) THEN StartDate(y, m) ELSE NoDate
                /\ end_date' = NoDate
                /\ pc' = "done"
                /\ result' = ValueError
                /\ path' = "raised"
    /\ FreshLocals
    /\ UNCHANGED db

\* calculate_total_revenue is called
CallTotal ==
    /\ Quiescent
    /\ \E p \in Properties, t \in Tenants :
        /\ ref' \in RefFor("total", p, t, 0, 0)
        /\ op' = "total"
        /\ property_id' = p
        /\ tenant_id' = t
    /\ month' = 0
    /\ year' = 0
    /\ start_date' = NoDate
    /\ end_date' = NoDate
    /\ pc' = "initialize"
    /\ result' = NoResult
    /\ path' = ""
    /\ FreshLocals
    /\ UNCHANGED db

Args == <<op, property_id, tenant_id, month, year, start_date, end_date>>

\* await db_pool.initialize() returns; the pool has a session factory or not
InitializeOk ==
    /\ pc = "initialize"
    /\ nInit' = nInit + 1
    /\ \E f \in BOOLEAN : session_factory' = f
    /\ pc' = "check_factory"
    /\ UNCHANGED <<db, Args, session, row, retval, exc, result, path, fail,
                   nAcquire, nExecute, ref>>

\* the import, DatabasePool() or initialize() raises
InitializeRaises ==
    /\ pc = "initialize"
    /\ nInit' = nInit + 1
    /\ exc' = TRUE
    /\ fail' = "initialize"
    /\ pc' = "except"
    /\ UNCHANGED <<db, Args, session_factory, session, row, retval, result, path,
                   nAcquire, nExecute, ref>>

\* the else branch of "if db_pool.session_factory": only calculate_total_revenue has
\* one (raise Exception("Database pool not available"))
NotReadyRaisesNever(o) == FALSE

NotReadyRaises(o) == o = "total"

\* if db_pool.session_factory: ...
CheckFactory ==
    /\ pc = "check_factory"
    /\ IF session_factory
       THEN /\ pc' = "get_session"
            /\ UNCHANGED <<exc, fail, result, path>>
       ELSE IF NotReadyRaises(op)
       THEN /\ exc' = TRUE
            /\ fail' = "not_ready"
            /\ pc' = "except"
            /\ UNCHANGED <<result, path>>
       ELSE \* control leaves the try block and the function ends without a return
            /\ fail' = "not_ready"
            /\ result' = PyNone
            /\ path' = "none"
            /\ pc' = "done"
            /\ UNCHANGED exc
    /\ UNCHANGED <<db, Args, session_factory, session, row, retval,
                   nInit, nAcquire, nExecute, ref>>

\* async with db_pool.get_session() as session: entered
GetSessionOk ==
    /\ pc = "get_session"
    /\ nAcquire' = nAcquire + 1
    /\ session' = "open"
    /\ pc' = "execute"
    /\ UNCHANGED <<db, Args, session_factory, row, retval, exc, result, path, fail,
                   nInit, nExecute, ref>>

\* get_session() or __aenter__ raises: no session is held
GetSessionRaises ==
    /\ pc = "get_session"
    /\ nAcquire' = nAcquire + 1
    /\ exc' = TRUE
    /\ fail' = "get_session"
    /\ pc' = "except"
    /\ UNCHANGED <<db, Args, session_factory, session, row, retval, result, path,
                   nInit, nExecute, ref>>

\* await session.execute(...); row = result.fetchone()
ExecuteOk ==
    /\ pc = "execute"
    /\ nExecute' = nExecute + 1
    /\ row' = IF op = "monthly"
              THEN MonthlyQuery(db, property_id, tenant_id, start_date, end_date)
              ELSE TotalQuery(db, property_id, tenant_id)
    /\ pc' = "return_expr"
    /\ UNCHANGED <<db, Args, session_factory, session, retval, exc, result, path, fail,
                   nInit, nAcquire, ref>>

\* mutant: the session is not scoped, an exception skips its release
ExecuteRaisesNoRelease ==
    /\ pc = "execute"
    /\ nExecute' = nExecute + 1
    /\ exc' = TRUE
    /\ fail' = "execute"
    /\ pc' = "except"
    /\ UNCHANGED <<db, Args, session_factory, session, row, retval, result, path,
                   nInit, nAcquire, ref>>

\* execute() or fetchone() raises inside the with block
ExecuteRaises ==
    /\ pc = "execute"
    /\ nExecute' = nExecute + 1
    /\ exc' = TRUE
    /\ fail' = "execute"
    /\ pc' = "aexit"
    /\ UNCHANGED <<db, Args, session_factory, session, row, retval, result, path,
                   nInit, nAcquire, ref>>

\* the return expression is evaluated inside the with block
ReturnExpr ==
    /\ pc = "return_expr"
    /\ LET r == IF op = "monthly" THEN MonthlyReturn(row)
                ELSE TotalReturn(row, property_id, tenant_id)
       IN  IF r.ok
           THEN /\ retval' = r.value
                /\ UNCHANGED <<exc, fail>>
           ELSE /\ exc' = TRUE
                /\ fail' = "convert"
                /\ UNCHANGED retval
    /\ pc' = "aexit"
    /\ UNCHANGED <<db, Args, session_factory, session, row, result, path,
                   nInit, nAcquire, nExecute, ref>>

\* __aexit__ of the session scope: runs on return and on exception
ReleaseOk ==
    /\ pc = "aexit"
    /\ session' = "closed"
    /\ IF exc
       THEN /\ pc' = "except"
            /\ UNCHANGED <<result, path>>
       ELSE /\ pc' = "done"
            /\ result' = retval
            /\ path' = "live"
    /\ UNCHANGED <<db, Args, session_factory, row, retval, exc, fail,
                   nInit, nAcquire, nExecute, ref>>

\* __aexit__ itself raises (commit / close failure): the pending return is lost
ReleaseRaises ==
    /\ pc = "aexit"
    /\ session' = "closed"
    /\ exc' = TRUE
    /\ fail' = IF fail = "" THEN "release" ELSE fail
    /\ pc' = "except"
    /\ UNCHANGED <<db, Args, session_factory, row, retval, result, path,
                   nInit, nAcquire, nExecute, ref>>

\* mutant: the handler tries the live path once more before falling back
ExceptRetry ==
    /\ pc = "except"
    /\ exc' = FALSE
    /\ IF nInit < 2
       THEN /\ pc' = "initialize"
            /\ UNCHANGED <<result, path>>
       ELSE /\ result' = IF op = "monthly"
                         THEN MonthlyFallback(monthly_mock, tenant_id, property_id)
                         ELSE TotalFallback(mock_data, tenant_id, property_id)
            /\ path' = "fallback"
            /\ pc' = "done"
    /\ UNCHANGED <<db, Args, session_factory, session, row, retval, fail,
                   nInit, nAcquire, nExecute, ref>>

\* except Exception as e: print(...); return the fallback table entry
Except ==
    /\ pc = "except"
    /\ exc' = FALSE
    /\ result' = IF op = "monthly"
                 THEN MonthlyFallback(monthly_mock, tenant_id, property_id)
                 ELSE TotalFallback(mock_data, tenant_id, property_id)
    /\ path' = "fallback"
    /\ pc' = "done"
    /\ UNCHANGED <<db, Args, session_factory, session, row, retval, fail,
                   nInit, nAcquire, nExecute, ref>>

Next ==
    \/ AddReservation
    \/ RemoveReservation
    \/ CallMonthly
    \/ CallTotal
    \/ InitializeOk
    \/ InitializeRaises
    \/ CheckFactory
    \/ GetSessionOk
    \/ GetSessionRaises
    \/ ExecuteOk
    \/ ExecuteRaises
    \/ ReturnExpr
    \/ ReleaseOk
    \/ ReleaseRaises
    \/ Except

Spec == Init /\ [][Next]_vars

-----------------------------------------------------------------------------
(* Vocabulary of the properties *)

Done == pc = "done"
Monthly == op = "monthly"
Total == op = "total"

\* the ways the collaborator can be unavailable: initialization fails, no session
\* factory, session acquisition fails, the query fails
Unavailable == {"initialize", "not_ready", "get_session", "execute"}

\* a monetary value in thousandths (NULL counts as nothing)
Thousandths(v) == IF v.kind = "Decimal" THEN v.coef * Pow10(3 - v.scale) ELSE 0

RECURSIVE SumThousandths(_)
SumThousandths(S) ==
    IF S = {} THEN 0
    ELSE LET r == CHOOSE x \in S : TRUE
         IN  Thousandths(r.total_amount) + SumThousandths(S \ {r})

\* days on a scale on which calendar order is numeric order
DayNumber(d) == d[1] * 372 + d[2] * 31 + d[3]

FirstOfMonth(y, m) == <<y, m, 1>>
FirstOfFollowingMonth(y, m) == IF m = 12 THEN <<y + 1, 1, 1>> ELSE <<y, m + 1, 1>>

\* the reservations of (p, t) with check-in in [first of (y, m), first of the following month)
InPeriod(table, p, t, y, m) ==
    {r \in table :
        /\ r.property_id = p
        /\ r.tenant_id = t
        /\ DayNumber(FirstOfMonth(y, m)) <= DayNumber(r.check_in_date)
        /\ DayNumber(r.check_in_date) < DayNumber(FirstOfFollowingMonth(y, m))}

\* the month boundaries of the period are dates datetime can represent
Representable == year < MAXYEAR \/ month < 12

RevenueResultFields == {"property_id", "tenant_id", "total", "currency", "count"}

\* reservation tables that differ from db only in reservations of tenants other than t
OtherTenantChanges(t) ==
    { {r \in db : r.tenant_id = t} }
    \cup { db \cup {r} : r \in {x \in ReservationSpace : x.tenant_id # t} }
    \cup { db \ {r} : r \in {x \in db : x.tenant_id # t} }

\* fallback tables that differ from d only in the sub-tables of tenants other than t
OtherTenantTables(d, t) ==
    LET keys == (DOMAIN d \cup Tenants) \ (IF t \in DOMAIN d THEN {} ELSE {t})
        subs == {d[u] : u \in DOMAIN d} \cup {EmptyDict}
    IN  { [k \in DOMAIN d \cap {t} |-> d[k]] }
        \cup { [k \in keys |-> IF k = t THEN d[t] ELSE sub] : sub \in subs }

-----------------------------------------------------------------------------
(* C1 *)

\* C1: for every period whose month boundaries are representable dates, whatever the
\* collaborator does, calculate_monthly_revenue hands its caller a non-negative
\* Decimal: never None, never an exception.
C1_MonthlyReturnsNonNegativeDecimal ==
    (Done /\ Monthly /\ Representable) =>
        /\ path # "raised"
        /\ result.kind = "Decimal"
        /\ result.coef >= 0

-----------------------------------------------------------------------------
(* C2 *)

\* C2: whatever the collaborator does (including a fetched row whose sum is NULL),
\* calculate_total_revenue never raises and returns a complete Revenue Result:
\* the arguments echoed, a total string, currency "USD", a count in Nat.
C2_TotalReturnsCompleteResult ==
    /\ Total => path # "raised"
    /\ (Done /\ Total) =>
        /\ path \in {"live", "fallback"}
        /\ ~exc
        /\ DOMAIN result = RevenueResultFields
        /\ result.property_id = property_id
        /\ result.tenant_id = tenant_id
        /\ result.total \in STRING
        /\ result.total # "None"
        /\ result.currency = "USD"
        /\ result.count \in Nat

\* a row was fetched, its sum was NULL, the conversion failed, the fallback answered
C2_Witness ==
    /\ Done /\ Total
    /\ fail = "convert"
    /\ row.present /\ row.total_revenue.kind # "Decimal"
    /\ path = "fallback"

-----------------------------------------------------------------------------
(* C3 *)

\* C3: tenant isolation. The fetched row, the live result and the fallback result of
\* an invocation for tenant T are the same under every reservation table and every
\* fallback table that differs only in what belongs to other tenants.
C3_TenantIsolation ==
    /\ (pc \in {"return_expr", "aexit"} /\ fail # "execute") =>
        \A db2 \in OtherTenantChanges(tenant_id) :
            row = IF Monthly
                  THEN MonthlyQuery(db2, property_id, tenant_id, start_date, end_date)
                  ELSE TotalQuery(db2, property_id, tenant_id)
    /\ (Done /\ path = "live") =>
        \A db2 \in OtherTenantChanges(tenant_id) :
            result = IF Monthly
                     THEN MonthlyReturn(MonthlyQuery(db2, property_id, tenant_id,
                                                     start_date, end_date)).value
                     ELSE TotalReturn(TotalQuery(db2, property_id, tenant_id),
                                      property_id, tenant_id).value
    /\ (Done /\ path = "fallback" /\ Monthly) =>
        \A table2 \in OtherTenantTables(monthly_mock, tenant_id) :
            result = MonthlyFallback(table2, tenant_id, property_id)
    /\ (Done /\ path = "fallback" /\ Total) =>
        \A table2 \in OtherTenantTables(mock_data, tenant_id) :
            result = TotalFallback(table2, tenant_id, property_id)

\* a live all-time result for a tenant while another tenant holds a reservation
\* of the same property
C3_Witness ==
    /\ Done /\ Total /\ path = "live"
    /\ \E r \in db : r.property_id = property_id /\ r.tenant_id # tenant_id
    /\ \E r \in db : r.property_id = property_id /\ r.tenant_id = tenant_id
    /\ result.count = 1

-----------------------------------------------------------------------------
(* C4 *)

\* C4: on the live path calculate_monthly_revenue returns exactly the sum of
\* total_amount over the reservations of the property and tenant whose check-in lies
\* in [first day of (year, month), first day of the following month), December being
\* followed by January of year + 1; an empty match set yields zero.
C4_MonthlyLiveSum ==
    (Done /\ Monthly /\ path = "live") =>
        /\ result.kind = "Decimal"
        /\ Thousandths(result)
             = SumThousandths(InPeriod(db, property_id, tenant_id, year, month))
        /\ start_date = FirstOfMonth(year, month)
        /\ end_date = FirstOfFollowingMonth(year, month)

\* a December: a check-in on December 1st is summed, one on January 1st of the next
\* year is not
C4_Witness ==
    /\ Done /\ Monthly /\ path = "live"
    /\ month = 12
    /\ \E r \in db : /\ r.property_id = property_id /\ r.tenant_id = tenant_id
                     /\ r.check_in_date = <<year, 12, 1>>
                     /\ Thousandths(r.total_amount) > 0
                     /\ Thousandths(result) = Thousandths(r.total_amount)
    /\ \E r \in db : /\ r.property_id = property_id /\ r.tenant_id = tenant_id
                     /\ r.check_in_date = <<year + 1, 1, 1>>
                     /\ Thousandths(r.total_amount) > 0

-----------------------------------------------------------------------------
(* C5 *)

\* C5: with the collaborator unavailable calculate_total_revenue returns the fallback
\* entry found by tenant first and property second, currency "USD", and total "0.000",
\* count 0 when the tenant or the property is absent; ("prop-001", "tenant-a") gives
\* "2250.000" and 4, ("prop-001", "tenant-b") gives "0.000" and 0.
C5_TotalFallback ==
    (Done /\ Total /\ fail \in Unavailable) =>
        /\ path = "fallback"
        /\ result.property_id = property_id
        /\ result.tenant_id = tenant_id
        /\ result.currency = "USD"
        /\ IF tenant_id \in DOMAIN mock_data /\ property_id \in DOMAIN mock_data[tenant_id]
           THEN /\ result.total = mock_data[tenant_id][property_id].total
                /\ result.count = mock_data[tenant_id][property_id].count
           ELSE /\ result.total = "0.000"
                /\ result.count = 0
        /\ (property_id = "prop-001" /\ tenant_id = "tenant-a") =>
                result.total = "2250.000" /\ result.count = 4
        /\ (property_id = "prop-001" /\ tenant_id = "tenant-b") =>
                result.total = "0.000" /\ result.count = 0

\* the pool has no session factory and tenant-b asks for the property tenant-a also has
C5_Witness ==
    /\ Done /\ Total
    /\ fail = "not_ready"
    /\ property_id = "prop-001" /\ tenant_id = "tenant-b"
    /\ result.total = "0.000"

-----------------------------------------------------------------------------
(* C6 *)

\* C6: with the collaborator unavailable (initialization fails, no session factory,
\* session or query fails) calculate_monthly_revenue returns the monthly fallback
\* value looked up by tenant then property, zero if either is absent, whatever the
\* requested month and year; ("prop-002", "tenant-a", 6, 2024) gives Decimal("1243.875").
C6_MonthlyFallback ==
    (Done /\ Monthly /\ fail \in Unavailable) =>
        /\ result = IF tenant_id \in DOMAIN monthly_mock
                       /\ property_id \in DOMAIN monthly_mock[tenant_id]
                    THEN monthly_mock[tenant_id][property_id]
                    ELSE Dec(0, 0)
        /\ (property_id = "prop-002" /\ tenant_id = "tenant-a") =>
                result = Dec(1243875, 3)

-----------------------------------------------------------------------------
(* C7 *)

\* C7: a live all-time query that returns no row yields total "0.00", count 0; the
\* fallback never yields the total "0.00", and a fallback total of value zero is
\* "0.000" with count 0; so a live result for zero reservations and a fallback
\* result never carry the same total.
C7_LiveZeroDistinct ==
    (Done /\ Total) =>
        /\ (path = "live" /\ ~row.present) => (result.total = "0.00" /\ result.count = 0)
        /\ (path = "live" /\ result.count = 0) => result.total = "0.00"
        /\ path = "fallback" => result.total # "0.00"
        /\ (path = "fallback" /\ result.count = 0) => result.total = "0.000"

\* the live query succeeded and found no reservation
C7_Witness ==
    /\ Done /\ Total /\ path = "live"
    /\ ~row.present
    /\ result.total = "0.00" /\ result.count = 0

-----------------------------------------------------------------------------
(* C8 *)

\* equal as returned values: Decimals compare by numeric value
SameValue(a, b) ==
    IF DOMAIN a = DOMAIN b /\ "kind" \in DOMAIN a /\ a.kind = "Decimal" /\ b.kind = "Decimal"
    THEN Thousandths(a) = Thousandths(b)
    ELSE a = b

\* C8 as claimed: two invocations with identical arguments and no change of the
\* reservation data between them return identical results (stated for invocations
\* that both returned a value from the live query or from the fallback table).
C8_IdenticalResults ==
    (Done /\ ref # NoRef /\ path \in {"live", "fallback"} /\ ref.path \in {"live", "fallback"})
        => SameValue(result, ref.result)

\* C8 as amended: two invocations with identical arguments, no change of the
\* reservation data between them, and the same resolution (both answered by the live
\* query, or both by the fallback, or both by neither) return identical results.
C8_IdenticalResultsSamePath ==
    (Done /\ ref # NoRef /\ ref.path = path) => result = ref.result

\* two live all-time invocations in a row that counted a reservation
C8_Witness ==
    /\ Done /\ Total /\ path = "live"
    /\ ref # NoRef /\ ref.path = "live"
    /\ result.count > 0

-----------------------------------------------------------------------------
(* C9 *)

\* C9: a session that was acquired is released on every exit path, before the
\* fallback lookup runs and before the invocation returns: the handler and the
\* caller never see an open session, and an invocation that acquired one ends with
\* it closed.
C9_SessionReleased ==
    /\ pc \in {"except", "done", "idle"} => session # "open"
    /\ session = "open" => pc \in {"execute", "return_expr", "aexit"}
    /\ (pc \in {"except", "done"} /\ nAcquire = 1 /\ fail # "get_session") =>
            session = "closed"
    /\ session = "closed" => nAcquire = 1

\* the conversion of the fetched row failed and the handler is about to run the
\* fallback lookup: the session is already closed
C9_Witness ==
    /\ pc = "except"
    /\ fail = "convert"
    /\ session = "closed"

-----------------------------------------------------------------------------
(* C10 *)

\* C10: an invocation initializes the collaborator at most once, acquires at most one
\* session and executes at most one query; once a step has failed it only releases
\* the session, runs the fallback lookup and returns the fallback value.
C10_NoRetries ==
    /\ nInit <= 1 /\ nAcquire <= 1 /\ nExecute <= 1
    /\ pc \in {"initialize"} => nInit = 0
    /\ pc \in {"initialize", "check_factory", "get_session"} => nAcquire = 0
    /\ pc \in {"initialize", "check_factory", "get_session", "execute"} => nExecute = 0
    /\ fail \in {"initialize", "get_session", "execute", "convert", "release"} =>
        /\ pc \in {"aexit", "except", "done"}
        /\ Done => path = "fallback"

\* the query failed after one initialization, one acquisition and one execution, and
\* the invocation returned the fallback value
C10_Witness ==
    /\ Done /\ fail = "execute" /\ path = "fallback"
    /\ nInit = 1 /\ nAcquire = 1 /\ nExecute = 1

====
